---- MODULE Spec2Model ----
(***************************************************************************)
(* Model of the Bullz Vector Proxy (src/app.py, src/routes_search_fix.py). *)
(*                                                                         *)
(* The process resolves a vector store id once at import time              *)
(* (app.py:121), then serves /health, /info, /upload (app.py) and /search  *)
(* (app.py:175 and the router of routes_search_fix.py:121).  The upstream   *)
(* provider is the environment: every upstream call draws its outcome      *)
(* nondeterministically, and a successful store creation adds a store.     *)
(*                                                                         *)
(* Lines 181-210 of app.py are module-level statements left over from the   *)
(* body of its search handler (they read the handler's parameter `body`);  *)
(* the model takes the handlers as the functions the two files define.     *)
(* OPENAI_API_KEY is set and the openai package imports: app.py:27-32      *)
(* raise otherwise, before anything modelled here.                         *)
(*                                                                         *)
(* Strings whose contents the code inspects (text leaves, output_text) are *)
(* sequences of characters, so that strip() and "\n".join() are computed.  *)
(* Optional values (None or a value) are sequences of length 0 or 1.       *)
(***************************************************************************)
EXTENDS Integers, Sequences, FiniteSets, TLC

VARIABLES
    phase,            \* "boot" | "serving" | "failed" (import of app.py raised)
    cfg,              \* the environment read at import (os.getenv, SDK capabilities)
    stores,           \* upstream: the vector stores, in listing order
    VECTOR_STORE_ID,  \* app.py module global, assigned at line 121
    startupCalls,     \* upstream calls made by the resolver at startup
    req,              \* the request being answered (last one handled)
    oracle,           \* the upstream's answers to this request's generation calls
    resp,             \* its HTTP response
    calls             \* upstream calls made while handling req

vars == <<phase, cfg, stores, VECTOR_STORE_ID, startupCalls, req, oracle, resp, calls>>

----------------------------------------------------------------------------
(* Bounds of the model *)

\* upstream never holds more stores than this (caps store creation)
MaxStores == 4
\* text-bearing nodes in one upstream output (over all items)
MaxNodes == 2

----------------------------------------------------------------------------
(* Optional values and strings *)

None == <<>>
Some(x) == <<x>>
IsNone(o) == o = <<>>
Get(o) == o[1]

\* characters str.strip() removes
Whitespace == {" ", "\n"}

RECURSIVE lstrip(_)
lstrip(s) ==
    IF s # <<>> /\ Head(s) \in Whitespace THEN lstrip(Tail(s)) ELSE s

RECURSIVE rstrip(_)
rstrip(s) ==
    IF s # <<>> /\ s[Len(s)] \in Whitespace
    THEN rstrip(SubSeq(s, 1, Len(s) - 1))
    ELSE s

\* str.strip()
strip(s) == rstrip(lstrip(s))

\* "\n".join(parts)
RECURSIVE join(_)
join(parts) ==
    IF parts = <<>> THEN <<>>
    ELSE IF Len(parts) = 1 THEN parts[1]
    ELSE parts[1] \o <<"\n">> \o join(Tail(parts))

\* the literal "(no text output)"
NoTextOutput == <<"(no text output)">>

\* the node types whose text is collected
TextTypes == {"output_text", "text"}

----------------------------------------------------------------------------
(* The upstream response to a response-generation call *)

\* one content entry of an output item; content holds nested entries
Node(type, text, file_id, content) ==
    [type |-> type, text |-> text, file_id |-> file_id, content |-> content]

LeafA == Node("output_text", Some(<<"a">>), None, <<>>)
LeafB == Node("text", Some(<<"b">>), None, <<>>)
LeafEmpty == Node("output_text", Some(<<>>), None, <<>>)
LeafBlank == Node("output_text", Some(<<" ">>), None, <<>>)
\* an entry of another type that carries a text of its own
Citation == Node("file_citation", Some(<<"c">>), Some("file_1"), <<>>)
\* a text leaf one level deeper than output[].content[]
Nested == Node("message", None, None, <<LeafA>>)

NodeSet == {LeafA, LeafB, LeafEmpty, LeafBlank, Citation, Nested}

\* the content lists of length 1..n
Contents(n) == UNION {[1..k -> NodeSet] : k \in 1..n}

\* the output lists: no item, one item, or two items, holding at most
\* MaxNodes entries altogether
Outputs ==
    {<<>>, <<[content |-> <<>>]>>}
    \cup {<<[content |-> c]>> : c \in Contents(MaxNodes)}
    \cup {<<[content |-> c1], [content |-> c2]>> :
            <<c1, c2>> \in {p \in Contents(MaxNodes) \X Contents(MaxNodes) :
                              Len(p[1]) + Len(p[2]) <= MaxNodes}}

\* the values of the output_text convenience field: absent, "", " ", "a"
OutputTexts == {None, Some(<<>>), Some(<<" ">>), Some(<<"a">>)}

\* a 2xx body that is not a JSON object (routes_search_fix.py:108 tests for it)
NotADict == [isDict |-> FALSE, output_text |-> None, output |-> <<>>]

Payloads ==
    {NotADict}
    \cup {[isDict |-> TRUE, output_text |-> t, output |-> o] :
            t \in OutputTexts, o \in Outputs}

----------------------------------------------------------------------------
(* Text normalisation *)

\* Python's `x or default` on strings
Or(s, default) == IF s = <<>> THEN default ELSE s

\* the test of routes_search_fix.py:60 and :116
IsTextLeaf(ct) ==
    ct.type \in TextTypes /\ ~IsNone(ct.text) /\ Get(ct.text) # <<>>

ContentTexts(content) ==
    LET sel == SelectSeq(content, IsTextLeaf)
    IN  [i \in 1..Len(sel) |-> Get(sel[i].text)]

\* the two nested loops over output[].content[]
RECURSIVE WalkOutput(_)
WalkOutput(items) ==
    IF items = <<>> THEN <<>>
    ELSE ContentTexts(Head(items).content) \o WalkOutput(Tail(items))

extract_text(r) ==
    IF ~IsNone(r.output_text) /\ strip(Get(r.output_text)) # <<>>
    THEN strip(Get(r.output_text))
    ELSE Or(strip(join(WalkOutput(r.output))), NoTextOutput)

IsCitation(ct) == ct.type = "file_citation" /\ ~IsNone(ct.file_id)

ContentCites(content) ==
    LET sel == SelectSeq(content, IsCitation)
    IN  [i \in 1..Len(sel) |-> Get(sel[i].file_id)]

RECURSIVE WalkCites(_)
WalkCites(items) ==
    IF items = <<>> THEN <<>>
    ELSE ContentCites(Head(items).content) \o WalkCites(Tail(items))

\* the text and citations of _responses_via_sdk's result
sdk_result(r) == [text |-> extract_text(r), citations |-> WalkCites(r.output)]

\* the normalisation of _responses_via_rest
rest_text(data) ==
    IF ~data.isDict THEN <<>>
    ELSE LET text == IF IsNone(data.output_text) THEN <<>> ELSE Get(data.output_text)
         IN  IF text # <<>> THEN text
             ELSE Or(strip(join(WalkOutput(data.output))), NoTextOutput)

rest_result(data) == [text |-> rest_text(data), citations |-> <<>>]

\* _collect_text_deep over a list of nodes: a node's own text, then its
\* values (the nested content), then the following nodes
RECURSIVE collect_text_deep(_)
collect_text_deep(nodes) ==
    IF nodes = <<>> THEN <<>>
    ELSE LET n == Head(nodes)
             own == IF n.type \in TextTypes /\ ~IsNone(n.text)
                    THEN <<Get(n.text)>> ELSE <<>>
         IN  own \o collect_text_deep(n.content) \o collect_text_deep(Tail(nodes))

\* _collect_text_deep over an output list: items are dicts without a type
RECURSIVE collect_output_deep(_)
collect_output_deep(items) ==
    IF items = <<>> THEN <<>>
    ELSE collect_text_deep(Head(items).content) \o collect_output_deep(Tail(items))

----------------------------------------------------------------------------
(* Configuration and the upstream vector stores *)

\* app.py:41, routes_search_fix.py:21 (the default name)
VECTOR_STORE_NAME == "bullz-vector-store"

\* a vector store id; NoId is the empty string of an unset VECTOR_STORE_ID
StoreId(src, n) == [src |-> src, n |-> n]
NoId == StoreId("none", 0)
EnvId == StoreId("env", 0)

Store(id, name) == [id |-> id, name |-> name]

\* what the upstream may hold when the process starts
InitialStores ==
    { <<Store(StoreId("old", 1), "other-store")>>,
      <<Store(StoreId("old", 1), "other-store"),
        Store(StoreId("old", 2), VECTOR_STORE_NAME),
        Store(StoreId("old", 3), VECTOR_STORE_NAME)>> }

\* os.getenv("ACTION_SHARED_SECRET"): "" stands for unset
EnvSecrets == {"", "s3cret"}

\* app.py:34-36: the environment's secret, or a generated one
ACTION_SHARED_SECRET ==
    IF cfg.envSecret = "" THEN "bullz_generated" ELSE cfg.envSecret

\* routes_search_fix.py:22: the environment's secret, "" when unset
ACTION_SECRET_EXPECTED == cfg.envSecret

\* the store a successful upstream create adds
Created(sts, name) ==
    Append(sts, Store(StoreId("created", Len(sts) + 1), name))

\* outcomes of an upstream call; a create succeeds only below the quota
Outcomes == {"ok", "err"}
CreateOutcomes(sts) == IF Len(sts) < MaxStores THEN {"ok", "err"} ELSE {"err"}

\* index of the first listed store with this name, 0 if none
FirstByName(sts, name) ==
    IF \E i \in 1..Len(sts) : sts[i].name = name
    THEN CHOOSE i \in 1..Len(sts) :
            /\ sts[i].name = name
            /\ \A j \in 1..(i - 1) : sts[j].name # name
    ELSE 0

Call(op, vs, ok) == [op |-> op, vs |-> vs, ok |-> ok]

\* the result of a resolver run
Resolved(id, cs, sts) == [ok |-> TRUE, id |-> id, calls |-> cs, stores |-> sts]
Raised(cs, sts) == [ok |-> FALSE, id |-> NoId, calls |-> cs, stores |-> sts]

\* REST fallback of ensure_vector_store_safe (app.py:100-117); cs are the
\* calls already made
resolve_rest(vs_name, sts, o, cs) ==
    IF o.restList = "err"
    THEN Raised(Append(cs, Call("rest_list", NoId, FALSE)), sts)
    ELSE LET cs1 == Append(cs, Call("rest_list", NoId, TRUE))
             i == FirstByName(sts, vs_name)
         IN  IF i # 0 THEN Resolved(sts[i].id, cs1, sts)
             ELSE IF o.restCreate = "ok"
             THEN LET sts1 == Created(sts, vs_name)
                  IN  Resolved(sts1[Len(sts1)].id,
                               Append(cs1, Call("rest_create", NoId, TRUE)), sts1)
             ELSE Raised(Append(cs1, Call("rest_create", NoId, FALSE)), sts)

\* SDK path of ensure_vector_store_safe (app.py:83-98), falling through to
\* the REST fallback when the SDK has no beta.vector_stores or create raises
resolve_sdk(vs_name, sts, o) ==
    IF ~cfg.hasBetaVS THEN resolve_rest(vs_name, sts, o, <<>>)
    ELSE LET listed == o.sdkList = "ok"
             cs1 == <<Call("sdk_list", NoId, listed)>>
             i == IF listed THEN FirstByName(sts, vs_name) ELSE 0
         IN  IF i # 0 THEN Resolved(sts[i].id, cs1, sts)
             ELSE IF o.sdkCreate = "ok"
             THEN LET sts1 == Created(sts, vs_name)
                  IN  Resolved(sts1[Len(sts1)].id,
                               Append(cs1, Call("sdk_create", NoId, TRUE)), sts1)
             ELSE resolve_rest(vs_name, sts, o,
                               Append(cs1, Call("sdk_create", NoId, FALSE)))

ensure_vector_store_safe(vs_id, vs_name, sts, o) ==
    IF vs_id # NoId THEN Resolved(vs_id, <<>>, sts)
    ELSE resolve_sdk(vs_name, sts, o)

\* the outcomes the upstream may give the resolver's calls
ResolverOutcomes(sts) ==
    [sdkList : Outcomes, sdkCreate : CreateOutcomes(sts),
     restList : Outcomes, restCreate : CreateOutcomes(sts)]

----------------------------------------------------------------------------------------------------------------------------------------
(* Requests and responses *)

\* X-Action-Secret as the handler receives it: missing, empty, or a value
Secrets == {None, Some(""), Some("s3cret"), Some("wrong"), Some("bullz_generated")}

\* body.query, by the two tests the handler applies to it
Query(val, isStr, truthy) == [val |-> val, isStr |-> isStr, truthy |-> truthy]
Queries ==
    { Query("what is x", TRUE, TRUE), Query("", TRUE, FALSE),
      Query("42 (int)", FALSE, TRUE), Query("0 (int)", FALSE, FALSE),
      Query("null", FALSE, FALSE) }
NoQuery == Query("-", FALSE, FALSE)

\* the namespace parameter of /upload
Namespaces == {None, Some(""), Some("ns")}

\* how many response-generation attempts of one request the upstream's
\* answers are drawn for
MaxAttempts == 2

\* the upstream's answers to the successive response-generation calls of one
\* request, up to its first success: "shape" is a 400 naming an unknown
\* parameter, "other" any other error (401, 429, 5xx, transport)
GenErrors == {"shape", "other"}
GenScripts ==
    UNION {{e \o <<last>> : e \in [1..k -> GenErrors], last \in {"ok"} \cup GenErrors}
             : k \in 0..(MaxAttempts - 1)}

NoReq == [handler |-> "none", secret |-> None, query |-> NoQuery, namespace |-> None]

\* gen: the script above; data: the body of the 2xx answer the handler reads
NoOracle == [gen |-> <<>>, data |-> NotADict]

Resp(status, detail) ==
    [status |-> status, detail |-> detail, stage |-> None, text |-> <<>>,
     citations |-> <<>>, file_id |-> None, namespace |-> None,
     vector_store_id |-> NoId]

NoResp == Resp(0, "")

Init ==
    /\ phase = "boot"
    /\ cfg \in [envSecret : EnvSecrets, vsIdEnv : {NoId, EnvId},
                hasBetaVS : BOOLEAN, hasResponses : BOOLEAN]
    /\ stores \in InitialStores
    /\ VECTOR_STORE_ID = NoId
    /\ startupCalls = <<>>
    /\ req = NoReq
    /\ oracle = NoOracle
    /\ resp = NoResp
    /\ calls = <<>>

\* app.py:121: VECTOR_STORE_ID = ensure_vector_store_safe(...); an exception
\* here ends the import, and the process never serves
Startup ==
    /\ phase = "boot"
    /\ \E o \in ResolverOutcomes(stores) :
          LET r == ensure_vector_store_safe(cfg.vsIdEnv, VECTOR_STORE_NAME, stores, o)
          IN  /\ phase' = IF r.ok THEN "serving" ELSE "failed"
              /\ VECTOR_STORE_ID' = r.id
              /\ startupCalls' = r.calls
              /\ stores' = r.stores
    /\ UNCHANGED <<cfg, req, oracle, resp, calls>>

----------------------------------------------------------------------------
(* app.py handlers *)

\* the process serves and no request is being answered
Idle == phase = "serving" /\ req = NoReq

\* the response is sent and the request's context is dropped
Deliver ==
    /\ req # NoReq
    /\ req' = NoReq
    /\ oracle' = NoOracle
    /\ resp' = NoResp
    /\ calls' = <<>>
    /\ UNCHANGED <<phase, cfg, stores, VECTOR_STORE_ID, startupCalls>>

Truthy(secret) == ~IsNone(secret) /\ Get(secret) # ""

\* a check_secret that only tests for a non-empty header
check_secret_nonempty(secret) == Truthy(secret)

\* check_secret returns normally (TRUE) or raises HTTPException(401) (FALSE)
check_secret(secret) == Truthy(secret) /\ Get(secret) = ACTION_SHARED_SECRET

\* the response FastAPI gives an exception that no handler catches
Unhandled == Resp(500, "Internal Server Error")

health ==
    /\ Idle
    /\ req' = [NoReq EXCEPT !.handler = "health"]
    /\ resp' = Resp(200, "ok")
    /\ calls' = <<>>
    /\ oracle' = NoOracle
    /\ UNCHANGED <<phase, cfg, stores, VECTOR_STORE_ID, startupCalls>>

\* the body of GET /info
info_body == [Resp(200, "info") EXCEPT !.vector_store_id = VECTOR_STORE_ID]

info ==
    /\ Idle
    /\ req' = [NoReq EXCEPT !.handler = "info"]
    /\ resp' = info_body
    /\ calls' = <<>>
    /\ oracle' = NoOracle
    /\ UNCHANGED <<phase, cfg, stores, VECTOR_STORE_ID, startupCalls>>

\* step 3 of upload: the metadata call is made only for a truthy namespace,
\* and its exception is caught (app.py:161-166)
upload_tag(namespace, o) ==
    IF Truthy(namespace)
    THEN <<Call("files_update", NoId, o.tag = "ok")>>
    ELSE <<>>

\* an upload whose metadata call is not guarded by try/except
upload_tagged_raises(namespace, o, cs) ==
    IF Truthy(namespace) /\ o.tag = "err"
    THEN [resp |-> Unhandled, calls |-> cs \o upload_tag(namespace, o)]
    ELSE [resp |-> [Resp(200, "ok") EXCEPT !.file_id = Some("file_new"),
                                           !.namespace = namespace],
          calls |-> cs \o upload_tag(namespace, o)]

\* steps 3 and the return of upload (app.py:160-168), after the calls cs
upload_tagged(namespace, o, cs) ==
    [resp |-> [Resp(200, "ok") EXCEPT !.file_id = Some("file_new"),
                                      !.namespace = namespace],
     calls |-> cs \o upload_tag(namespace, o)]

\* upload after check_secret: the response and the upstream calls.  Neither
\* client.files.create nor the attach call is inside a try, so an upstream
\* error leaves the handler as an unhandled exception.
upload_flow(namespace, o) ==
    IF o.create = "err"
    THEN [resp |-> Unhandled, calls |-> <<Call("files_create", NoId, FALSE)>>]
    ELSE LET c1 == <<Call("files_create", NoId, TRUE)>>
         IN  IF ~cfg.hasBetaVS
             THEN [resp |-> Unhandled, calls |-> c1]
             ELSE IF o.attach = "err"
             THEN [resp |-> Unhandled,
                   calls |-> Append(c1, Call("attach", VECTOR_STORE_ID, FALSE))]
             ELSE upload_tagged(namespace, o,
                                Append(c1, Call("attach", VECTOR_STORE_ID, TRUE)))

upload ==
    /\ Idle
    /\ \E secret \in Secrets, namespace \in Namespaces,
          o \in [create : Outcomes, attach : Outcomes, tag : Outcomes] :
          LET r == IF check_secret(secret) THEN upload_flow(namespace, o)
                   ELSE [resp |-> Resp(401, "bad secret"), calls |-> <<>>]
          IN  /\ req' = [NoReq EXCEPT !.handler = "upload", !.secret = secret,
                                      !.namespace = namespace]
              /\ resp' = r.resp
              /\ calls' = r.calls
    /\ oracle' = NoOracle
    /\ UNCHANGED <<phase, cfg, stores, VECTOR_STORE_ID, startupCalls>>

\* app.py:175-177: the function body ends after check_secret (the lines that
\* follow are at module level), so it returns None
app_search ==
    /\ Idle
    /\ \E secret \in Secrets, query \in Queries :
          /\ req' = [NoReq EXCEPT !.handler = "app_search", !.secret = secret,
                                  !.query = query]
          /\ resp' = IF check_secret(secret) THEN Resp(200, "null")
                     ELSE Resp(401, "bad secret")
    /\ calls' = <<>>
    /\ oracle' = NoOracle
    /\ UNCHANGED <<phase, cfg, stores, VECTOR_STORE_ID, startupCalls>>

----------------------------------------------------------------------------
(* routes_search_fix.py: POST /search *)

\* the Auth test of search (line 124): TRUE when it raises 401
auth_fails(secret) ==
    ACTION_SECRET_EXPECTED = "" \/ secret # Some(ACTION_SECRET_EXPECTED)

\* an Input test that only tests for a falsy query
query_invalid_falsy(query) == ~query.truthy

\* the Input test of search (line 127): TRUE when it raises 400
query_invalid(query) == ~query.truthy \/ ~query.isStr

\* _get_or_create_vector_store_id: create first; on an exception list and
\* find by name, else create once more.  Without beta.vector_stores every
\* step raises AttributeError before any call.
get_or_create_vector_store_id(sts, o) ==
    IF ~cfg.hasBetaVS THEN Raised(<<>>, sts)
    ELSE IF o.create1 = "ok"
    THEN LET sts1 == Created(sts, VECTOR_STORE_NAME)
         IN  Resolved(sts1[Len(sts1)].id, <<Call("sdk_create", NoId, TRUE)>>, sts1)
    ELSE LET cs1 == <<Call("sdk_create", NoId, FALSE)>>
         IN  IF o.list = "err"
             THEN Raised(Append(cs1, Call("sdk_list", NoId, FALSE)), sts)
             ELSE LET cs2 == Append(cs1, Call("sdk_list", NoId, TRUE))
                      i == FirstByName(sts, VECTOR_STORE_NAME)
                  IN  IF i # 0 THEN Resolved(sts[i].id, cs2, sts)
                      ELSE IF o.create2 = "ok"
                      THEN LET sts1 == Created(sts, VECTOR_STORE_NAME)
                           IN  Resolved(sts1[Len(sts1)].id,
                                        Append(cs2, Call("sdk_create", NoId, TRUE)), sts1)
                      ELSE Raised(Append(cs2, Call("sdk_create", NoId, FALSE)), sts)

\* a handler that tries again after every failed attempt
RECURSIVE attempts_retry(_)
attempts_retry(gen) ==
    IF Len(gen) <= 1 \/ Head(gen) = "ok" THEN 1 ELSE 1 + attempts_retry(Tail(gen))

\* how many response-generation calls the handler makes against a script:
\* one, whatever the first answer is (lines 143-147 pick one path, once)
attempts(gen) == 1

\* the response-generation calls made for the store vs_id
gen_calls(vs_id, gen) ==
    [i \in 1..attempts(gen) |->
        Call(IF cfg.hasResponses THEN "responses_sdk" ELSE "responses_rest",
             vs_id, gen[i] = "ok")]

\* lines 142-154: the SDK path when the client has .responses, else REST;
\* an upstream error becomes a 500 on both
gen_response(gen, data) ==
    IF gen[attempts(gen)] = "ok"
    THEN LET r == IF cfg.hasResponses THEN sdk_result(data) ELSE rest_result(data)
         IN  [Resp(200, "ok") EXCEPT !.text = r.text, !.citations = r.citations]
    ELSE IF cfg.hasResponses THEN Resp(500, "error")
    ELSE Resp(500, "REST responses failed")

search ==
    /\ Idle
    /\ \E secret \in Secrets, query \in Queries :
        /\ req' = [NoReq EXCEPT !.handler = "search", !.secret = secret,
                                !.query = query]
        /\ IF auth_fails(secret)
           THEN /\ resp' = Resp(401, "bad secret")
                /\ calls' = <<>>
                /\ oracle' = NoOracle
                /\ UNCHANGED stores
           ELSE IF query_invalid(query)
           THEN /\ resp' = Resp(400, "query required")
                /\ calls' = <<>>
                /\ oracle' = NoOracle
                /\ UNCHANGED stores
           ELSE \E o \in [create1 : CreateOutcomes(stores), list : Outcomes,
                          create2 : CreateOutcomes(stores)] :
                  LET vs == get_or_create_vector_store_id(stores, o)
                  IN  /\ stores' = vs.stores
                      /\ IF ~vs.ok
                         THEN /\ resp' = Resp(500, "SDK too old to manage vector stores")
                              /\ calls' = vs.calls
                              /\ oracle' = NoOracle
                         ELSE \E gen \in GenScripts :
                              \E data \in IF gen[1] = "ok" THEN Payloads ELSE {NotADict} :
                                /\ oracle' = [gen |-> gen, data |-> data]
                                /\ resp' = gen_response(gen, data)
                                /\ calls' = vs.calls \o gen_calls(vs.id, gen)
    /\ UNCHANGED <<phase, cfg, VECTOR_STORE_ID, startupCalls>>

----------------------------------------------------------------------------

Next ==
    \/ Startup
    \/ health
    \/ info
    \/ upload
    \/ app_search
    \/ search
    \/ Deliver

Spec == Init /\ [][Next]_vars

----------------------------------------------------------------------------
(* Properties *)

GenOps == {"responses_sdk", "responses_rest"}

\* the response-generation calls among the request's upstream calls
GenCalls == SelectSeq(calls, LAMBDA c : c.op \in GenOps)

\* the header is missing, empty, or differs from the expected secret
BadSecret(secret, expected) ==
    secret = None \/ secret = Some("") \/ secret # Some(expected)

\* C1: a request to a protected endpoint whose X-Action-Secret is missing,
\* empty or different from the configured secret is answered 401, and no
\* upstream call is made for it.
C1_BadSecretUnauthorized ==
    /\ (req.handler \in {"upload", "app_search"}
          /\ BadSecret(req.secret, ACTION_SHARED_SECRET))
       => (resp.status = 401 /\ calls = <<>>)
    /\ (req.handler = "search" /\ BadSecret(req.secret, ACTION_SECRET_EXPECTED))
       => (resp.status = 401 /\ calls = <<>>)

\* an upload with a wrong, non-empty secret was refused
C1_Witness ==
    /\ req.handler = "upload"
    /\ req.secret = Some("wrong")
    /\ resp.status = 401
    /\ calls = <<>>

\* the request carried the secret the router expects
PassedSearchAuth ==
    /\ req.handler = "search"
    /\ cfg.envSecret # ""
    /\ req.secret = Some(cfg.envSecret)

C3_InfoReflectsUsedStore ==
    \A i \in 1..Len(calls) :
        calls[i].op \in GenOps \cup {"attach"}
           => calls[i].vs = info_body.vector_store_id

\* C4: when the upstream rejects the first payload variant with a
\* shape-rejection error and accepts the second, /search answers with the
\* second attempt's success, and exactly one failed attempt was recorded.
C4_FallsBackToSecondVariant ==
    (req.handler = "search" /\ oracle.gen = <<"shape", "ok">>)
       => /\ resp.status = 200
          /\ Len(GenCalls) = 2
          /\ Len(SelectSeq(GenCalls, LAMBDA c : ~c.ok)) = 1

\* C5: when the upstream answers the first response-generation attempt with
\* a non-shape error, /search returns a failure and makes no further
\* response-generation call for that request.
C5_NonShapeErrorStops ==
    (req.handler = "search" /\ oracle.gen # <<>> /\ oracle.gen[1] = "other")
       => /\ resp.status >= 400
          /\ Len(GenCalls) = 1

\* a first attempt failed with a non-shape error although the upstream
\* would have accepted a second one
C5_Witness ==
    /\ req.handler = "search"
    /\ oracle.gen = <<"other", "ok">>
    /\ resp.status = 500
    /\ Len(GenCalls) = 1

\* the request's last upstream call is a failed call of this operation
LastCallFailed(op) ==
    /\ calls # <<>>
    /\ calls[Len(calls)].op = op
    /\ ~calls[Len(calls)].ok

\* C6: in /upload a failed file-create is answered 502 tagged with stage
\* "upload" and no attach call is made; a failed attach, made only after a
\* successful file-create, is answered 502 tagged with stage "attach".
C6_UploadFailuresTagged ==
    /\ (req.handler = "upload" /\ LastCallFailed("files_create"))
       => (resp.status = 502 /\ resp.stage = Some("upload") /\ Len(calls) = 1)
    /\ (req.handler = "upload" /\ LastCallFailed("attach"))
       => /\ resp.status = 502
          /\ resp.stage = Some("attach")
          /\ calls[1].op = "files_create" /\ calls[1].ok

TagCalls == SelectSeq(calls, LAMBDA c : c.op = "files_update")

\* file-create and attach both succeeded for this upload
UploadAttached ==
    /\ req.handler = "upload"
    /\ Len(calls) >= 2
    /\ calls[2].op = "attach"
    /\ calls[2].ok

\* C7: when file-create and attach succeeded, the upload returns success
\* with the file id whether or not the namespace tagging call fails; the
\* tagging call is made once when a namespace is given and not at all when
\* none is.
C7_TaggingFailureSwallowed ==
    UploadAttached
       => /\ resp.status = 200
          /\ resp.file_id # None
          /\ req.namespace = Some("ns") => Len(TagCalls) = 1
          /\ req.namespace = None => TagCalls = <<>>

\* the tagging call of an upload failed and the upload succeeded
C7_Witness ==
    /\ UploadAttached
    /\ req.namespace = Some("ns")
    /\ LastCallFailed("files_update")
    /\ resp.status = 200

ListOps == {"sdk_list", "rest_list"}
CreateOps == {"sdk_create", "rest_create"}

\* C8: the resolver returns a configured id unchanged with no upstream
\* call; it issues a create only after a listing that completed; and an
\* upstream error during listing is a startup failure, not absorbed.
C8_CreateOnlyAfterListing ==
    phase # "boot"
       => /\ cfg.vsIdEnv # NoId
             => (VECTOR_STORE_ID = cfg.vsIdEnv /\ startupCalls = <<>>)
          /\ \A i \in 1..Len(startupCalls) :
                startupCalls[i].op \in CreateOps
                   => \E j \in 1..(i - 1) :
                         startupCalls[j].op \in ListOps /\ startupCalls[j].ok
          /\ (\E i \in 1..Len(startupCalls) :
                startupCalls[i].op \in ListOps /\ ~startupCalls[i].ok)
                => phase = "failed"

\* every text-bearing leaf of the output, at any depth, in document order
DeepLeaves(data) == collect_output_deep(data.output)

Blank(s) == strip(s) = <<>>

\* the upstream answer holds no text: no convenience text, and every leaf
\* is empty or whitespace
NoExtractableText(data) ==
    /\ IsNone(data.output_text) \/ Blank(Get(data.output_text))
    /\ \A i \in 1..Len(DeepLeaves(data)) : Blank(DeepLeaves(data)[i])

\* C9: a successful /search whose upstream answer holds no extractable text
\* returns the sentinel "(no text output)" as its text, on both paths.
C9_SentinelWhenNoText ==
    (req.handler = "search" /\ resp.status = 200 /\ NoExtractableText(oracle.data))
       => resp.text = NoTextOutput

\* C10: the text of a successful /search is every text-bearing leaf of the
\* upstream output, at any nesting depth, once and in document order,
\* joined with newlines (stated for answers without the convenience text
\* whose leaves carry no surrounding whitespace).
C10_AllLeavesJoined ==
    (/\ req.handler = "search"
     /\ resp.status = 200
     /\ oracle.data.isDict
     /\ IsNone(oracle.data.output_text)
     /\ DeepLeaves(oracle.data) # <<>>
     /\ \A i \in 1..Len(DeepLeaves(oracle.data)) :
           ~Blank(DeepLeaves(oracle.data)[i]))
       => resp.text = join(DeepLeaves(oracle.data))

====
